---- MODULE Spec2Model ----
(***************************************************************************)
(* Reward-rate evaluation engine of finance_assistant/backend/             *)
(* data_manager.py: DataManager.find_best_card_for_transaction and         *)
(* DataManager.get_best_overall_reward_scenarios over the cached card      *)
(* list MANUAL_CREDIT_CARDS.                                               *)
(*                                                                         *)
(* Rates are Python floats in the source; the model uses integers (whole   *)
(* percentages), which keeps every comparison and max() the source makes.  *)
(* A value that may be a number, a non-numeric value or a missing key is a *)
(* record [k, v] with k in {"num", "bad", "missing"}.                      *)
(* A condition entry is a record [obj, id, name]: obj = FALSE is a plain   *)
(* string (id = name = the string), obj = TRUE is a dict {id, name}.       *)
(* The row fields name, bank and type are copied through by the source and *)
(* are left out of the rows.                                               *)
(*                                                                         *)
(* Spec is the evaluation engine alone.  SpecDynamic adds the operations   *)
(* on Dynamic cards (optimize_dynamic_rewards, update_active_rules,        *)
(* _calculate_rule_score), called from request threads.  SpecStore adds    *)
(* save_manual_credit_card_details and delete_manual_credit_card_details,  *)
(* which work on the same cached list the evaluation reads.                *)
(***************************************************************************)
EXTENDS Integers, Sequences, FiniteSets, TLC

VARIABLES
    cards,   \* MANUAL_CREDIT_CARDS, the cached card list
    month,   \* date.today().month
    ctx,     \* the arguments of the last find_best_card_for_transaction call
    out,     \* what the last call returned, or that it raised
    op,      \* the last operation called
    again,   \* the last call repeated the call before it, arguments included
    res,     \* what the last optimizer or store operation returned, or that it raised
    runs,    \* per request thread: the optimizer operation in progress, if any
    save,    \* the save_manual_credit_card_details call in progress, if any
    stale    \* ids of the cards whose active selection dates from an earlier quarter

vars == <<cards, month, ctx, out, op, again, res, runs, save, stale>>

(***************************** bounds **************************************)
MaxCards == 3
MaxRules == 2
MaxActive == 2
\* the stored card list holds at most MaxStored cards
MaxStored == 2

(***************************** values **************************************)
NoneId == "<None>"

Num(v) == [k |-> "num", v |-> v]
BadRate == [k |-> "bad", v |-> 0]
MissingRate == [k |-> "missing", v |-> 0]

Str(s) == [obj |-> FALSE, id |-> s, name |-> s]

\* a condition entry stored as a dict {id, name}
Obj(id, name) == [obj |-> TRUE, id |-> id, name |-> name]

Rule(cat, pay, pm, rate, rot, ms, qs) ==
    [isDict |-> TRUE, category |-> cat, payee |-> pay, paymentMethod |-> pm,
     rate |-> rate, is_rotating |-> rot, months |-> ms, quarters |-> qs]

NonDictRule ==
    [isDict |-> FALSE, category |-> <<>>, payee |-> <<>>, paymentMethod |-> <<>>,
     rate |-> BadRate, is_rotating |-> TRUE, months |-> {}, quarters |-> {}]

\* an entry of dynamic_rewards.active_rules; tier_id names the tier it belongs to
Entry(form, rule, rate) == [form |-> form, rule |-> rule, rate |-> rate, tier_id |-> "t1"]

\* a tier of a Dynamic card: {tier_id, rate, max_active, eligible_rules}
Tier(tier_id, rate, max_active, eligible_rules) ==
    [tier_id |-> tier_id, rate |-> rate, max_active |-> max_active,
     eligible_rules |-> eligible_rules]

Card(id, base, type, static, rotating, period, active) ==
    [id |-> id, base_rate |-> base, reward_structure_type |-> type,
     static_rewards |-> static, rotating_rules |-> rotating,
     rotation_period |-> period, active_rules |-> active,
     \* the tiers of a Dynamic card
     dynamic_tiers |-> <<>>,
     \* keys of other schemas that the optimizer code reads: reward_structure.type,
     \* rewards_structure, and the 'default' entry of rewards / current_rewards
     reward_structure |-> "absent", rewards_structure |-> "absent", rewards_default |-> 0,
     \* the reward system and its points program (NoneId is null)
     reward_system |-> "Cashback", points_program |-> NoneId]

WithTiers(card, tiers) == [card EXCEPT !.dynamic_tiers = tiers]

SeqUpTo(S, n) == UNION {[1..k -> S] : k \in 0..n}

Max(a, b) == IF a >= b THEN a ELSE b

(************************* conversions *************************************)
\* float(card.get('base_rate', 0.0)) with the except branch: 0.0
base_rate(card) == IF card.base_rate.k = "num" THEN card.base_rate.v ELSE 0

\* float(rule.get('rate', 0.0)): a missing key is 0.0, a non-numeric value raises
rate_ok(rule) == rule.rate.k \in {"num", "missing"}
rule_rate(rule) == IF rule.rate.k = "num" THEN rule.rate.v ELSE 0

extract_names(condition_list) ==
    [i \in 1..Len(condition_list) |->
        IF condition_list[i].obj THEN condition_list[i].name
                                 ELSE condition_list[i].id]

(************************* Period Resolver *********************************)
current_quarter_off_by_one(current_month) == (current_month \div 3) + 1

current_quarter(current_month) == ((current_month - 1) \div 3) + 1

applies_now(rule, rotation_period, current_month) ==
    IF ~rule.is_rotating THEN TRUE
    ELSE IF rotation_period = "Monthly" THEN current_month \in rule.months
    ELSE IF rotation_period = "Quarterly"
         THEN current_quarter(current_month) \in rule.quarters
    ELSE FALSE

\* card.get('rotation_period', 'Quarterly')
rotation_period(card) ==
    IF card.rotation_period = "absent" THEN "Quarterly" ELSE card.rotation_period

(************************* candidate rules *********************************)
IsNested(e) == e.form = "nested"

\* rule_details = active_rule_entry['rule']; rule_details['rate'] = entry['rate']
rule_details_accumulate(e) == [e.rule EXCEPT !.rate = Num(rule_rate(e.rule) + e.rate.v)]

rule_details(e) == [e.rule EXCEPT !.rate = e.rate]

\* index of the first entry whose item assignment raises, Len + 1 if none
FirstBadEntry(entries) ==
    LET bad == {i \in 1..Len(entries) : IsNested(entries[i]) /\ ~entries[i].rule.isDict}
    IN  IF bad = {} THEN Len(entries) + 1
        ELSE CHOOSE i \in bad : \A j \in bad : i <= j

RECURSIVE DynamicRules(_, _)
DynamicRules(entries, i) ==
    IF i > Len(entries) THEN <<>>
    ELSE IF IsNested(entries[i]) THEN <<rule_details(entries[i])>> \o DynamicRules(entries, i + 1)
    ELSE IF entries[i].form = "flat" THEN <<entries[i].rule>> \o DynamicRules(entries, i + 1)
    ELSE DynamicRules(entries, i + 1)

GatherRaises(card) ==
    \/ /\ card.reward_structure_type = "Rotating"
       /\ \E i \in 1..Len(card.rotating_rules) : ~card.rotating_rules[i].isDict
    \/ /\ card.reward_structure_type = "Dynamic"
       /\ FirstBadEntry(card.active_rules) <= Len(card.active_rules)

\* the eligible rules of every tier, each at its tier's rate
RECURSIVE eligible_at_tier_rate(_, _)
eligible_at_tier_rate(tiers, i) ==
    IF i > Len(tiers) THEN <<>>
    ELSE [k \in 1..Len(tiers[i].eligible_rules) |->
             [tiers[i].eligible_rules[k] EXCEPT !.rate = tiers[i].rate]]
         \o eligible_at_tier_rate(tiers, i + 1)

rules_to_check_with_eligible(card, current_month) ==
    IF card.reward_structure_type = "Static" THEN card.static_rewards
    ELSE IF card.reward_structure_type = "Rotating"
         THEN SelectSeq(card.rotating_rules,
                        LAMBDA rule : applies_now(rule, rotation_period(card), current_month))
    ELSE IF card.reward_structure_type = "Dynamic"
         THEN DynamicRules(card.active_rules, 1) \o eligible_at_tier_rate(card.dynamic_tiers, 1)
    ELSE <<>>

rules_to_check(card, current_month) ==
    IF card.reward_structure_type = "Static" THEN card.static_rewards
    ELSE IF card.reward_structure_type = "Rotating"
         THEN SelectSeq(card.rotating_rules,
                        LAMBDA rule : applies_now(rule, rotation_period(card), current_month))
    ELSE IF card.reward_structure_type = "Dynamic" THEN DynamicRules(card.active_rules, 1)
    ELSE <<>>

\* the stored card after the gathering loop has run over it
CardAfterGather(card) ==
    IF card.reward_structure_type # "Dynamic" THEN card
    ELSE [card EXCEPT !.active_rules =
            [i \in 1..Len(card.active_rules) |->
                IF i < FirstBadEntry(card.active_rules) /\ IsNested(card.active_rules[i])
                THEN [card.active_rules[i] EXCEPT !.rule = rule_details(card.active_rules[i])]
                ELSE card.active_rules[i]]]

FirstRaise(all_cards) ==
    LET bad == {i \in 1..Len(all_cards) : GatherRaises(all_cards[i])}
    IN  IF bad = {} THEN Len(all_cards) + 1
        ELSE CHOOSE i \in bad : \A j \in bad : i <= j

CardsAfterGather(all_cards) ==
    [i \in 1..Len(all_cards) |->
        IF i <= FirstRaise(all_cards) THEN CardAfterGather(all_cards[i]) ELSE all_cards[i]]

(************************* Rule Matcher ************************************)
InList(x, list) == \E i \in 1..Len(list) : list[i] = x

category_match_absent_ok(rule_cat_list, category_id) ==
    rule_cat_list = <<>> \/ category_id = NoneId \/ InList(category_id, rule_cat_list)

category_match(rule_cat_list, category_id) ==
    rule_cat_list = <<>> \/ (category_id # NoneId /\ InList(category_id, rule_cat_list))

payee_match(rule_payee_list, payee_id) ==
    rule_payee_list = <<>> \/ (payee_id # NoneId /\ InList(payee_id, rule_payee_list))

pm_match_requires_id(rule_pm_list, payment_method_id) ==
    payment_method_id # NoneId
    /\ (rule_pm_list = <<>> \/ InList(payment_method_id, rule_pm_list))

pm_match(rule_pm_list, payment_method_id) ==
    rule_pm_list = <<>> \/ (payment_method_id # NoneId /\ InList(payment_method_id, rule_pm_list))

matches_above_amount(rule, c) ==
    /\ c.amount_milliunits > 0
    /\ category_match(extract_names(rule.category), c.category_id)
    /\ payee_match(extract_names(rule.payee), c.payee_id)
    /\ pm_match(extract_names(rule.paymentMethod), c.payment_method_id)

matches(rule, c) ==
    /\ category_match(extract_names(rule.category), c.category_id)
    /\ payee_match(extract_names(rule.payee), c.payee_id)
    /\ pm_match(extract_names(rule.paymentMethod), c.payment_method_id)

(************************* Card Rate Evaluator *****************************)
best_rule_rate_init == -1

EmptyDetails == [category |-> <<>>, payee |-> <<>>, paymentMethod |-> <<>>]

Details(rule) ==
    [category |-> extract_names(rule.category),
     payee |-> extract_names(rule.payee),
     paymentMethod |-> extract_names(rule.paymentMethod)]

\* if rule_rate > best_rule_rate_for_card
\* a later rule of equal rate takes over the tracked rule
replaces_best_or_equal(rate, best_rule_rate_for_card) == rate >= best_rule_rate_for_card

replaces_best(rate, best_rule_rate_for_card) == rate > best_rule_rate_for_card

RECURSIVE EvaluateRules(_, _, _, _)
EvaluateRules(rules, c, i, acc) ==
    IF i > Len(rules) THEN acc
    ELSE LET rule == rules[i] IN
         IF ~rule.isDict \/ ~rate_ok(rule) THEN EvaluateRules(rules, c, i + 1, acc)
         ELSE IF matches(rule, c) /\ replaces_best(rule_rate(rule), acc.best)
              THEN EvaluateRules(rules, c, i + 1,
                                 [best |-> rule_rate(rule), details |-> Details(rule)])
              ELSE EvaluateRules(rules, c, i + 1, acc)

card_effective_rate_rule_first(base, best_rule_rate_for_card) ==
    IF best_rule_rate_for_card > best_rule_rate_init THEN best_rule_rate_for_card ELSE base

card_effective_rate(base, best_rule_rate_for_card) == Max(base, best_rule_rate_for_card)

base_rate_was_best_never(effective, base, best_rule_rate_for_card) == FALSE

\* if card_effective_rate == base_rate and best_rule_rate_for_card < base_rate
base_rate_was_best(effective, base, best_rule_rate_for_card) ==
    effective = base /\ best_rule_rate_for_card < base

scenario_row(card, c, current_month) ==
    LET acc == EvaluateRules(rules_to_check(card, current_month), c, 1,
                             [best |-> best_rule_rate_init, details |-> EmptyDetails])
        eff == card_effective_rate(base_rate(card), acc.best)
        det == IF base_rate_was_best(eff, base_rate(card), acc.best)
               THEN EmptyDetails ELSE acc.details
    IN  [card |-> [id |-> card.id], rate |-> eff, category |-> det.category,
         payee |-> det.payee, paymentMethod |-> det.paymentMethod]

(************************* Scenario Ranker *********************************)
sort_insert_unstable(sorted, row) ==
    LET p == Cardinality({i \in 1..Len(sorted) : sorted[i].rate > row.rate})
    IN  SubSeq(sorted, 1, p) \o <<row>> \o SubSeq(sorted, p + 1, Len(sorted))

\* list.sort(key=rate, reverse=True): stable, descending
sort_insert(sorted, row) ==
    LET p == Cardinality({i \in 1..Len(sorted) : sorted[i].rate >= row.rate})
    IN  SubSeq(sorted, 1, p) \o <<row>> \o SubSeq(sorted, p + 1, Len(sorted))

sort_desc_omitted(rows, i, acc) == rows

RECURSIVE sort_desc(_, _, _)
sort_desc(rows, i, acc) ==
    IF i > Len(rows) THEN acc ELSE sort_desc(rows, i + 1, sort_insert(acc, rows[i]))

\* scenario_results before the final sort
scenario_results(all_cards, c, current_month) ==
    [i \in 1..Len(all_cards) |-> scenario_row(all_cards[i], c, current_month)]

Raised == [ok |-> FALSE, rows |-> <<>>]

find_best_card_for_transaction(all_cards, c, current_month) ==
    IF FirstRaise(all_cards) <= Len(all_cards) THEN Raised
    ELSE [ok |-> TRUE,
          rows |-> sort_desc(scenario_results(all_cards, c, current_month), 1, <<>>)]

(************************* enumeration of scenarios ************************)
\* if rule_rate <= 0: continue
no_reward_negative_only(rate) == rate < 0

no_reward(rate) == rate <= 0

\* every rule at the base rate is taken for a duplicate of the base scenario
duplicates_base_rate_only(rule, base) == rule_rate(rule) = base

\* not rule_cat_list and not rule_payee_list and not rule_pm_list and rule_rate == base_rate
duplicates_base(rule, base) == Details(rule) = EmptyDetails /\ rule_rate(rule) = base

RECURSIVE rule_scenarios(_, _, _, _)
rule_scenarios(card, rules, i, base) ==
    IF i > Len(rules) THEN <<>>
    ELSE LET rule == rules[i] IN
         IF \/ ~rule.isDict
            \/ ~rate_ok(rule)
            \/ no_reward(rule_rate(rule))
            \/ duplicates_base(rule, base)
         THEN rule_scenarios(card, rules, i + 1, base)
         ELSE <<[card |-> [id |-> card.id], rate |-> rule_rate(rule),
                 category |-> Details(rule).category, payee |-> Details(rule).payee,
                 paymentMethod |-> Details(rule).paymentMethod]>>
              \o rule_scenarios(card, rules, i + 1, base)

card_scenarios(card, current_month) ==
    (IF base_rate(card) > 0
     THEN <<[card |-> [id |-> card.id], rate |-> base_rate(card), category |-> <<>>,
             payee |-> <<>>, paymentMethod |-> <<>>]>>
     ELSE <<>>)
    \o rule_scenarios(card, rules_to_check(card, current_month), 1, base_rate(card))

RECURSIVE all_scenarios(_, _, _)
all_scenarios(all_cards, i, current_month) ==
    IF i > Len(all_cards) THEN <<>>
    ELSE card_scenarios(all_cards[i], current_month) \o all_scenarios(all_cards, i + 1, current_month)

get_best_overall_reward_scenarios(all_cards, current_month) ==
    IF FirstRaise(all_cards) <= Len(all_cards) THEN Raised
    ELSE [ok |-> TRUE, rows |-> sort_desc(all_scenarios(all_cards, 1, current_month), 1, <<>>)]

(************************* inputs ******************************************)
Categories == {"Dining", "Gas"}
Payees == {"Shell"}
PaymentMethods == {"Visa"}
Amounts == {0, 5000}
Months == 1..12

Contexts ==
    [category_id : Categories \cup {NoneId}, payee_id : Payees \cup {NoneId},
     payment_method_id : PaymentMethods \cup {NoneId}, amount_milliunits : Amounts]

NoContext ==
    [category_id |-> NoneId, payee_id |-> NoneId, payment_method_id |-> NoneId,
     amount_milliunits |-> 0]

CardIds == <<"A", "B", "C", "D">>

Plain(cat, rate) == Rule(cat, <<>>, <<>>, rate, FALSE, {}, {})

\* Static cards whose rules differ in rate and category
RateRules ==
    {Plain(cat, rate) : cat \in {<<>>, <<Str("Dining")>>},
                        rate \in {Num(-2), Num(1), Num(2)}}

RateCards ==
    {Card("A", base, "Static", rules, <<>>, "absent", <<>>) :
        base \in {Num(-2), Num(1), Num(2), BadRate}, rules \in SeqUpTo(RateRules, MaxRules)}

\* Static cards with one rule, whose three condition lists vary
MatchCards ==
    {Card("A", Num(0), "Static", <<Rule(cat, pay, pm, Num(2), FALSE, {}, {})>>,
          <<>>, "absent", <<>>) :
        cat \in {<<>>, <<Str("Dining")>>, <<Str("Dining"), Str("Gas")>>},
        pay \in {<<>>, <<Str("Shell")>>},
        pm  \in {<<>>, <<Str("Visa")>>}}

\* Rotating cards with one rule, whose period settings vary
PeriodCards ==
    {Card("A", Num(1), "Rotating", <<>>,
          <<Rule(<<Str("Gas")>>, <<>>, <<>>, Num(2), rot, ms, qs)>>, period, <<>>) :
        rot \in BOOLEAN, ms \in {{1, 2, 3}, {7, 12}}, qs \in {{1}, {2, 4}},
        period \in {"Monthly", "Quarterly", "absent", "None"}}

\* cards with malformed rule entries or an unknown structure type
MalformedRules ==
    {Plain(<<Str("Dining")>>, Num(2)), Plain(<<Str("Dining")>>, MissingRate),
     Plain(<<Str("Dining")>>, BadRate), NonDictRule}

MalformedCards ==
    {Card("A", base, type, rules, rules, "Quarterly", <<>>) :
        base \in {Num(-2), Num(1)}, type \in {"Static", "Rotating", "Tiered"},
        rules \in SeqUpTo(MalformedRules, MaxRules)}

\* Dynamic cards and their active rule selection
ActiveEntries ==
    {Entry("nested", Plain(cat, own), Num(2)) :
        cat \in {<<>>, <<Str("Dining")>>}, own \in {MissingRate, Num(1)}}
    \cup {Entry("flat", Plain(<<Str("Gas")>>, Num(2)), MissingRate),
          Entry("nondict", NonDictRule, MissingRate),
          Entry("nested", NonDictRule, Num(2))}

\* every Dynamic card has one tier whose eligible rules are not all active
EligibleRules ==
    <<Rule(<<Str("Gas")>>, <<>>, <<>>, MissingRate, FALSE, {}, {}),
      Rule(<<Str("Dining")>>, <<>>, <<>>, MissingRate, FALSE, {}, {})>>

Tiers == <<Tier("t1", Num(3), 1, EligibleRules)>>

DynamicCards ==
    {WithTiers(Card("A", base, "Dynamic", <<>>, <<>>, "absent", active), Tiers) :
        base \in {Num(0), Num(1)}, active \in SeqUpTo(ActiveEntries, MaxActive)}

\* lists of several cards, with ids in list order
ListShapes ==
    {Card("A", Num(0), "Static", <<>>, <<>>, "absent", <<>>),
     Card("A", Num(1), "Static", <<>>, <<>>, "absent", <<>>),
     Card("A", Num(1), "Static", <<Plain(<<Str("Dining")>>, Num(2))>>, <<>>, "absent", <<>>),
     Card("A", Num(1), "Rotating", <<>>, <<NonDictRule>>, "Quarterly", <<>>),
     WithTiers(Card("A", Num(1), "Dynamic", <<>>, <<>>, "absent",
                    <<Entry("nested", Plain(<<Str("Dining")>>, MissingRate), Num(2))>>),
               Tiers)}

CardLists ==
    {[i \in 1..Len(shapes) |-> [shapes[i] EXCEPT !.id = CardIds[i]]] :
        shapes \in SeqUpTo(ListShapes, MaxCards)}

\* a card whose only rule has the rate 0, on a base rate of 0
ZeroRateCards ==
    {Card("A", Num(0), "Static", <<Plain(<<Str("Dining")>>, Num(0))>>, <<>>, "absent", <<>>)}

SingleCards == RateCards \cup MatchCards \cup MalformedCards \cup DynamicCards \cup ZeroRateCards

(************************* state machine ***********************************)
NoOutput == [ok |-> TRUE, rows |-> <<>>]

\* the request threads of the server
Threads == {"t1", "t2"}

\* the result of an optimizer or store operation on card id: ok = it returned,
\* success = the value returned, score and arg = the score and what was scored
Result(id, ok, success) ==
    [id |-> id, ok |-> ok, success |-> success, score |-> 0,
     arg |-> [rule |-> NonDictRule, tier_rate |-> 0]]

NoResult == Result(NoneId, TRUE, FALSE)

Idle == [pc |-> "idle", id |-> NoneId, active_rules |-> <<>>]

NoRuns == [t \in Threads |-> Idle]

NoSave == [pc |-> "idle", id |-> NoneId, idx |-> 0, before |-> <<>>]

Init ==
    /\ \/ cards \in {<<c>> : c \in SingleCards} /\ month = 1
       \/ cards \in {<<c>> : c \in PeriodCards} /\ month \in Months
       \/ cards \in CardLists /\ month = 1
    /\ ctx = NoContext
    /\ out = NoOutput
    /\ op = "init"
    /\ again = FALSE
    /\ res = NoResult
    /\ runs = NoRuns
    /\ save = NoSave
    /\ stale = {}

Rank(c) ==
    /\ out' = find_best_card_for_transaction(cards, c, month)
    /\ cards' = CardsAfterGather(cards)
    /\ ctx' = c
    /\ op' = "rank"
    /\ again' = (op = "rank" /\ ctx = c)
    /\ UNCHANGED <<month, res, runs, save, stale>>

Enumerate ==
    /\ out' = get_best_overall_reward_scenarios(cards, month)
    /\ cards' = CardsAfterGather(cards)
    /\ op' = "enumerate"
    /\ ctx' = NoContext
    /\ again' = FALSE
    /\ UNCHANGED <<month, res, runs, save, stale>>

Next ==
    \/ \E c \in Contexts : Rank(c)
    \/ Enumerate

Spec == Init /\ [][Next]_vars

(******************* condition entries in their two forms ******************)
\* a category, a payee and a payment method, each with an identifier and a name
CategoryEntity == Obj("c1", "Dining")
PayeeEntity == Obj("p1", "Shell")
PaymentMethodEntity == Obj("m1", "Visa")

\* a condition list on the entity, as plain identifier strings or as dicts
AsString(entity) == <<Str(entity.id)>>
AsObject(entity) == <<entity>>

\* card A holds a rule with its conditions as identifier strings, card B the
\* same rule with the same conditions as dicts
FormLists ==
    {<<Card("A", Num(1), "Static",
            <<Rule(IF cat THEN AsString(CategoryEntity) ELSE <<>>,
                   IF pay THEN AsString(PayeeEntity) ELSE <<>>,
                   IF pm THEN AsString(PaymentMethodEntity) ELSE <<>>,
                   Num(2), FALSE, {}, {})>>, <<>>, "absent", <<>>),
       Card("B", Num(1), "Static",
            <<Rule(IF cat THEN AsObject(CategoryEntity) ELSE <<>>,
                   IF pay THEN AsObject(PayeeEntity) ELSE <<>>,
                   IF pm THEN AsObject(PaymentMethodEntity) ELSE <<>>,
                   Num(2), FALSE, {}, {})>>, <<>>, "absent", <<>>)>> :
        cat \in BOOLEAN, pay \in BOOLEAN, pm \in BOOLEAN}

\* contexts that name the entities by identifier or by name
FormContexts ==
    [category_id : {NoneId, CategoryEntity.id, CategoryEntity.name},
     payee_id : {NoneId, PayeeEntity.id, PayeeEntity.name},
     payment_method_id : {NoneId, PaymentMethodEntity.id, PaymentMethodEntity.name},
     amount_milliunits : {0}]

InitForms ==
    /\ cards \in FormLists
    /\ month = 1
    /\ ctx = NoContext
    /\ out = NoOutput
    /\ op = "init"
    /\ again = FALSE
    /\ res = NoResult
    /\ runs = NoRuns
    /\ save = NoSave
    /\ stale = {}

NextForms ==
    \/ \E c \in FormContexts : Rank(c)
    \/ Enumerate

SpecForms == InitForms /\ [][NextForms]_vars

(************************ operations on Dynamic cards **********************)
\* the attributes of a DataManager object that the operations below use and
\* that the class or its __init__ defines
DataManagerAttributes ==
    {"get_manual_credit_cards", "get_manual_credit_card_details",
     "save_manual_credit_card_details", "_write_json"}

HasAttr(name) == name \in DataManagerAttributes

\* position of the card with this id in the list, 0 if there is none
IndexOf(all_cards, id) ==
    LET found == {i \in 1..Len(all_cards) : all_cards[i].id = id}
    IN  IF found = {} THEN 0 ELSE CHOOSE i \in found : \A j \in found : i <= j

\* the default card get_manual_credit_card_details builds for an unknown id
default_card(id) == Card(id, Num(0), "Static", <<>>, <<>>, "Quarterly", <<>>)

\* the validation get_manual_credit_card_details does on the stored card
validated_details(card) ==
    IF card.reward_structure_type \notin {"Static", "Rotating", "Dynamic"}
    THEN [card EXCEPT !.reward_structure_type = "Static"]
    ELSE card

\* the card returned, and the card list after the call: a stored card is
\* validated in place, an unknown id gets a default card that is not stored
get_manual_credit_card_details(all_cards, id) ==
    LET i == IndexOf(all_cards, id) IN
    IF i = 0 THEN [card |-> default_card(id), cards |-> all_cards]
    ELSE [card |-> validated_details(all_cards[i]),
          cards |-> [all_cards EXCEPT ![i] = validated_details(all_cards[i])]]

\* card_details.get('reward_structure', {}).get('type') != 'dynamic' returns
\* False; otherwise the placeholder returns True and selects nothing
optimize_dynamic_rewards(all_cards, id) ==
    LET details == get_manual_credit_card_details(all_cards, id) IN
    [success |-> details.card.reward_structure = "dynamic", cards |-> details.cards]

\* rule.get('payment_method'): the rules carry the key paymentMethod instead
payment_method(rule) == NoneId

\* active_rule.get('rate', 0) of an entry: its own rate key
active_rate(e) == IF e.form = "nested" THEN e.rate ELSE e.rule.rate

\* the loop over the active rules of a card with rewards_structure 'dynamic':
\* [ok, v], ok = FALSE when .get or max() raises
RECURSIVE competing_active(_, _, _, _)
competing_active(rule, entries, i, best) ==
    IF i > Len(entries) THEN [ok |-> TRUE, v |-> best]
    ELSE LET e == entries[i] IN
         IF e.form = "nondict" \/ (IsNested(e) /\ ~e.rule.isDict) THEN [ok |-> FALSE, v |-> best]
         ELSE IF \/ (IsNested(e) /\ e.rule.category = rule.category)
                 \/ (IsNested(e) /\ e.rule.payee = rule.payee)
                 \/ payment_method(e.rule) = payment_method(rule)
              THEN IF active_rate(e).k = "bad" THEN [ok |-> FALSE, v |-> best]
                   ELSE competing_active(rule, entries, i + 1,
                            Max(best, IF active_rate(e).k = "num" THEN active_rate(e).v ELSE 0))
              ELSE competing_active(rule, entries, i + 1, best)

\* the loop over other_cards: [ok, v] with v = best_competing_rate
RECURSIVE best_competing_rate(_, _, _, _)
best_competing_rate(rule, other_cards, i, best) ==
    IF i > Len(other_cards) THEN [ok |-> TRUE, v |-> best]
    ELSE LET card == other_cards[i] IN
         IF card.rewards_structure \in {"static", "rotating"}
         THEN \* category in rewards, payee in rewards['payees']: a list is unhashable
              IF rule.category # <<>> \/ rule.payee # <<>> THEN [ok |-> FALSE, v |-> best]
              ELSE best_competing_rate(rule, other_cards, i + 1, Max(best, card.rewards_default))
         ELSE IF card.rewards_structure = "dynamic"
         THEN LET r == competing_active(rule, card.active_rules, 1, best) IN
              IF r.ok THEN best_competing_rate(rule, other_cards, i + 1, r.v) ELSE r
         ELSE best_competing_rate(rule, other_cards, i + 1, best)

\* tier_rate - best_competing_rate
_calculate_rule_score(rule, tier_rate, other_cards) ==
    LET r == best_competing_rate(rule, other_cards, 1, 0) IN
    [ok |-> r.ok, v |-> tier_rate - r.v]

\* the cards of the list other than the one at position j
OtherCards(all_cards, j) ==
    SubSeq(all_cards, 1, j - 1) \o SubSeq(all_cards, j + 1, Len(all_cards))

\* an active entry as update_active_rules would store it: {tier_id, rule, rate}
Active(rule) == Entry("nested", rule, Tiers[1].rate)

\* the Dynamic card of the store: its active selection is empty, within or over
\* the tier's max_active; reward_structure is a key only a merged payload brings
DynamicStoreCards ==
    {[WithTiers(Card("A", Num(1), "Dynamic", <<>>, <<>>, "absent", active), Tiers)
         EXCEPT !.reward_structure = rs] :
        active \in {SubSeq(<<Active(EligibleRules[1]), Active(EligibleRules[2])>>, 1, n) :
                       n \in 0..MaxActive},
        rs \in {"absent", "dynamic"}}

\* the other card of the store: as save_manual_credit_card_details stores it, or
\* with the keys _calculate_rule_score reads
OtherStoreCards ==
    {Card("B", Num(1), "Static", <<Plain(<<Str("Dining")>>, Num(4))>>, <<>>, "absent", <<>>),
     [Card("B", Num(1), "Static", <<>>, <<>>, "absent", <<>>)
         EXCEPT !.rewards_structure = "static", !.rewards_default = 1],
     [Card("B", Num(1), "Tiered", <<>>, <<>>, "absent",
           <<Entry("nested", Plain(<<Str("Dining")>>, MissingRate), Num(2))>>)
         EXCEPT !.rewards_structure = "dynamic"]}

DynamicStoreLists ==
    {<<a>> : a \in DynamicStoreCards}
    \cup {<<a, b>> : a \in DynamicStoreCards, b \in OtherStoreCards}

\* the card ids of the requests: a stored Dynamic card, a stored card that is
\* not Dynamic, an id that is not stored
RequestIds == {"A", "B", "Z"}

\* the active_rules argument of update_active_rules
RequestedRules == {<<>>, <<Active(EligibleRules[1]), Active(EligibleRules[2])>>}

InitDynamic ==
    /\ cards \in DynamicStoreLists
    /\ month = 1
    /\ ctx = NoContext
    /\ out = NoOutput
    /\ op = "init"
    /\ again = FALSE
    /\ res = NoResult
    /\ runs = NoRuns
    /\ save = NoSave
    /\ stale = {}

\* a request thread enters optimize_dynamic_rewards
OptimizeCall(t, id) ==
    /\ runs[t].pc = "idle"
    /\ runs' = [runs EXCEPT ![t] = [pc |-> "optimize", id |-> id, active_rules |-> <<>>]]
    /\ UNCHANGED <<cards, month, ctx, out, op, again, res, save, stale>>

\* the body of optimize_dynamic_rewards
OptimizeRun(t) ==
    /\ runs[t].pc = "optimize"
    /\ LET r == optimize_dynamic_rewards(cards, runs[t].id) IN
       /\ cards' = r.cards
       /\ res' = Result(runs[t].id, TRUE, r.success)
    /\ op' = "optimize"
    /\ runs' = [runs EXCEPT ![t] = Idle]
    /\ stale' = IF optimize_dynamic_rewards(cards, runs[t].id).success
                THEN stale \ {runs[t].id} ELSE stale
    /\ UNCHANGED <<month, ctx, out, again, save>>

\* a request thread enters update_active_rules
UpdateCall(t, id, active_rules) ==
    /\ runs[t].pc = "idle"
    /\ runs' = [runs EXCEPT ![t] = [pc |-> "update", id |-> id, active_rules |-> active_rules]]
    /\ UNCHANGED <<cards, month, ctx, out, op, again, res, save, stale>>

\* the body of update_active_rules: its first statement looks up
\* self.get_credit_cards, which raises AttributeError
UpdateRun(t) ==
    /\ runs[t].pc = "update"
    /\ ~HasAttr("get_credit_cards")
    /\ res' = Result(runs[t].id, FALSE, FALSE)
    /\ op' = "update"
    /\ runs' = [runs EXCEPT ![t] = Idle]
    /\ UNCHANGED <<cards, month, ctx, out, again, save, stale>>

\* _calculate_rule_score for eligible rule k of tier i of card j, against the other cards
Score(j, i, k) ==
    /\ \A t \in Threads : runs[t].pc = "idle"
    /\ LET tier == cards[j].dynamic_tiers[i]
           r == _calculate_rule_score(tier.eligible_rules[k], tier.rate.v, OtherCards(cards, j))
       IN  res' = [Result(cards[j].id, r.ok, r.ok) EXCEPT
                      !.score = r.v,
                      !.arg = [rule |-> tier.eligible_rules[k], tier_rate |-> tier.rate.v]]
    /\ op' = "score"
    /\ UNCHANGED <<cards, month, ctx, out, again, runs, save, stale>>

NextDynamic ==
    \/ \E t \in Threads : \E id \in RequestIds : OptimizeCall(t, id)
    \/ \E t \in Threads : OptimizeRun(t)
    \/ \E t \in Threads : \E id \in RequestIds : \E active_rules \in RequestedRules :
          UpdateCall(t, id, active_rules)
    \/ \E t \in Threads : UpdateRun(t)
    \/ \E j \in 1..Len(cards) : \E i \in 1..Len(cards[j].dynamic_tiers) :
          \E k \in 1..Len(cards[j].dynamic_tiers[i].eligible_rules) : Score(j, i, k)

SpecDynamic == InitDynamic /\ [][NextDynamic]_vars

(************************ the activation period ****************************)
\* date.today() moves to the next month; at a quarter boundary the monthly and
\* the quarterly activation period have both rolled over, and every active
\* selection stored so far dates from an earlier period
NewMonth ==
    /\ month' = (month % 12) + 1
    /\ stale' = IF current_quarter(month') # current_quarter(month)
                THEN stale \cup {cards[j].id : j \in {l \in 1..Len(cards) :
                                      /\ cards[l].reward_structure_type = "Dynamic"
                                      /\ cards[l].active_rules # <<>>}}
                ELSE stale
    /\ UNCHANGED <<cards, ctx, out, op, again, res, runs, save>>

\* the contexts of the rankings made over the months
PeriodContexts == {[NoContext EXCEPT !.category_id = "Gas"]}

NextPeriod ==
    \/ NewMonth
    \/ \E c \in PeriodContexts : Rank(c)
    \/ \E t \in Threads : OptimizeCall(t, "A")
    \/ \E t \in Threads : OptimizeRun(t)

SpecPeriod == InitDynamic /\ [][NextPeriod]_vars

(******************************* the card store ****************************)
\* a payload of save_manual_credit_card_details: the keys it has, and their values
Payload(keys, base, type, static) ==
    [keys |-> keys, base_rate |-> base, reward_structure_type |-> type,
     static_rewards |-> static,
     id |-> NoneId, reward_system |-> "absent", points_program |-> NoneId]

\* target_card.update(card_details)
merge(card, payload) ==
    [card EXCEPT
        !.base_rate = IF "base_rate" \in payload.keys THEN payload.base_rate ELSE @,
        !.reward_structure_type =
            IF "reward_structure_type" \in payload.keys THEN payload.reward_structure_type ELSE @,
        !.static_rewards =
            IF "static_rewards" \in payload.keys THEN payload.static_rewards ELSE @,
        !.id = IF "id" \in payload.keys THEN payload.id ELSE @,
        !.reward_system =
            IF "reward_system" \in payload.keys THEN payload.reward_system ELSE @,
        !.points_program =
            IF "points_program" \in payload.keys THEN payload.points_program ELSE @]

\* the card built for an id that is not stored: 'id': card_id, and
\* card_details.get(key, default) for the other keys
new_card(id, payload) ==
    [merge(Card(id, Num(0), "Static", <<>>, <<>>, "absent", <<>>), payload) EXCEPT !.id = id]

\* the points program is left as the payload gave it
points_program_kept(reward_system, points_program) == points_program

\* Cashback forces points_program to None; Points without a program stores None
points_program_for(reward_system, points_program) ==
    IF reward_system = "Cashback" THEN NoneId
    ELSE IF points_program = NoneId THEN NoneId
    ELSE points_program

\* the validation and sanitization after update/creation
sanitized(card) ==
    LET type == IF card.reward_structure_type \in {"Static", "Rotating", "Dynamic"}
                THEN card.reward_structure_type ELSE "Static"
        system == IF card.reward_system \in {"Cashback", "Points"}
                  THEN card.reward_system ELSE "Cashback"
    IN  [card EXCEPT
            !.base_rate = IF card.base_rate.k = "num" THEN @ ELSE Num(0),
            !.reward_system = system,
            !.points_program = points_program_for(system, @),
            !.reward_structure_type = type,
            !.rotation_period = IF type = "Rotating" /\ @ \notin {"Monthly", "Quarterly"}
                                THEN "Quarterly" ELSE @]

\* the list after the merge or the append, before the validation
merged_cards(all_cards, id, payload) ==
    LET i == IndexOf(all_cards, id) IN
    IF i = 0 THEN Append(all_cards, new_card(id, payload))
    ELSE [all_cards EXCEPT ![i] = merge(all_cards[i], payload)]

\* updated_cards = [card for card in cards if card.get('id') != ynab_account_id]
without_card(all_cards, id) == SelectSeq(all_cards, LAMBDA card : card.id # id)

StoreIds == {"A", "B"}

StoreCards ==
    {Card("A", Num(1), "Static", <<Plain(<<Str("Dining")>>, Num(4))>>, <<>>, "absent", <<>>),
     Card("A", Num(1), "Rotating", <<>>,
          <<Rule(<<Str("Dining")>>, <<>>, <<>>, Num(4), TRUE, {}, {1})>>, "Quarterly", <<>>)}

StoreLists == {<<>>} \cup {<<a>> : a \in StoreCards}

Payloads ==
    {Payload({}, MissingRate, "absent", <<>>),
     Payload({"base_rate"}, Num(3), "absent", <<>>),
     Payload({"base_rate", "static_rewards"}, BadRate, "absent",
             <<Plain(<<Str("Dining")>>, Num(2))>>),
     Payload({"reward_structure_type"}, MissingRate, "Tiered", <<>>),
     Payload({"reward_structure_type"}, MissingRate, "Rotating", <<>>)}

\* payloads that carry a reward system, a points program or an id
FieldPayloads ==
    {Payload({"base_rate"}, Num(3), "absent", <<>>),
     [Payload({"reward_system"}, MissingRate, "absent", <<>>)
         EXCEPT !.reward_system = "Points"],
     [Payload({"reward_system", "points_program"}, MissingRate, "absent", <<>>)
         EXCEPT !.reward_system = "Points", !.points_program = "prog1"],
     [Payload({"base_rate", "reward_system", "points_program"}, Num(7), "absent", <<>>)
         EXCEPT !.reward_system = "Miles", !.points_program = "prog1"],
     [Payload({"id"}, MissingRate, "absent", <<>>) EXCEPT !.id = "B"]}

\* the contexts of the rankings made while the store changes
StoreContexts ==
    {NoContext, [NoContext EXCEPT !.category_id = "Dining"]}

InitStore ==
    /\ cards \in StoreLists
    /\ month = 1
    /\ ctx = NoContext
    /\ out = NoOutput
    /\ op = "init"
    /\ again = FALSE
    /\ res = NoResult
    /\ runs = NoRuns
    /\ save = NoSave
    /\ stale = {}

\* save_manual_credit_card_details up to the merge into the cached card, or the
\* append of the new card to the cached list
SaveMerge(id, payload) ==
    /\ save.pc = "idle"
    /\ IndexOf(cards, id) # 0 \/ Len(cards) < MaxStored
    /\ cards' = merged_cards(cards, id, payload)
    /\ save' = [pc |-> "merged", id |-> id,
                idx |-> IF IndexOf(cards, id) = 0 THEN Len(cards) + 1 ELSE IndexOf(cards, id),
                before |-> cards]
    /\ op' = "save"
    /\ res' = NoResult
    /\ ctx' = NoContext
    /\ out' = NoOutput
    /\ again' = FALSE
    /\ UNCHANGED <<month, runs, stale>>

\* the rest of save_manual_credit_card_details: validation, write, return True
SaveSanitize ==
    /\ save.pc = "merged"
    /\ LET i == save.idx IN
       cards' = [cards EXCEPT ![i] = sanitized(cards[i])]
    /\ res' = Result(save.id, TRUE, TRUE)
    /\ op' = "save"
    /\ save' = NoSave
    /\ ctx' = NoContext
    /\ out' = NoOutput
    /\ again' = FALSE
    /\ UNCHANGED <<month, runs, stale>>

\* delete_manual_credit_card_details: the cache is replaced by a new list
Delete(id) ==
    /\ save.pc = "idle"
    /\ cards' = without_card(cards, id)
    /\ res' = Result(id, TRUE, IndexOf(cards, id) # 0)
    /\ op' = "delete"
    /\ ctx' = NoContext
    /\ out' = NoOutput
    /\ again' = FALSE
    /\ UNCHANGED <<month, runs, save, stale>>

NextStore ==
    \/ \E id \in StoreIds : \E payload \in Payloads : SaveMerge(id, payload)
    \/ SaveSanitize
    \/ \E id \in StoreIds : Delete(id)
    \/ \E c \in StoreContexts : Rank(c)
    \/ Enumerate

SpecStore == InitStore /\ [][NextStore]_vars

\* saves and deletes with payloads that carry a reward system, a points
\* program or an id
NextFields ==
    \/ \E id \in StoreIds : \E payload \in FieldPayloads : SaveMerge(id, payload)
    \/ SaveSanitize
    \/ \E id \in StoreIds : Delete(id)

SpecFields == InitStore /\ [][NextFields]_vars

(************************* properties **************************************)
Ranked == op = "rank" /\ out.ok

CardIndex == 1..Len(cards)
RowIndex == 1..Len(out.rows)

\* the row of the ranking that belongs to the card at position j
RowOf(j) == out.rows[CHOOSE i \in RowIndex : out.rows[i].card.id = cards[j].id]

PosOf(id) == CHOOSE j \in CardIndex : cards[j].id = id

Candidates(j) == rules_to_check(cards[j], month)

\* positions of the candidate rules of card j that are usable and match ctx
Matching(j) ==
    {k \in 1..Len(Candidates(j)) :
        /\ Candidates(j)[k].isDict
        /\ rate_ok(Candidates(j)[k])
        /\ matches(Candidates(j)[k], ctx)}

MatchingRates(j) == {rule_rate(Candidates(j)[k]) : k \in Matching(j)}

SetMax(S) == CHOOSE x \in S : \A y \in S : y <= x

ListsEmpty(row) == row.category = <<>> /\ row.payee = <<>> /\ row.paymentMethod = <<>>

\* the first matching candidate of card j with the highest rate
FirstBest(j) ==
    Candidates(j)[CHOOSE k \in Matching(j) :
        /\ rule_rate(Candidates(j)[k]) = SetMax(MatchingRates(j))
        /\ \A l \in Matching(j) :
              rule_rate(Candidates(j)[l]) = SetMax(MatchingRates(j)) => k <= l]

\* C1: in a ranking, the rate of every card's row is at least that card's base rate.
C1_RateAtLeastBase ==
    Ranked => \A j \in CardIndex : RowOf(j).rate >= base_rate(cards[j])

\* C1 witness: a card whose only matching rule is below its base rate was ranked
C1_Witness ==
    /\ Ranked
    /\ \E j \in CardIndex :
          /\ MatchingRates(j) # {}
          /\ SetMax(MatchingRates(j)) < base_rate(cards[j])
          /\ SetMax(MatchingRates(j)) >= 0
          /\ RowOf(j).rate = base_rate(cards[j])

\* C2: in a ranking, the rate of a card's row is max(baseRate, highest rate among
\* the matching candidate rules), and is baseRate when no candidate rule matches.
C2_RateIsMaxOfBaseAndBestRule ==
    Ranked => \A j \in CardIndex :
        RowOf(j).rate = IF MatchingRates(j) = {} THEN base_rate(cards[j])
                        ELSE Max(base_rate(cards[j]), SetMax(MatchingRates(j)))

\* C3 as stated: the three condition lists of a row are empty whenever no
\* candidate rule matched or baseRate is the maximum, ties with the best rule included.
C3_ListsEmptyWhenBaseIsMax ==
    Ranked => \A j \in CardIndex :
        (MatchingRates(j) = {} \/ base_rate(cards[j]) >= SetMax(MatchingRates(j)))
            => ListsEmpty(RowOf(j))

\* C3 amended: the three condition lists of a row are empty whenever no candidate
\* rule matched or baseRate is strictly greater than the best matching rule's rate;
\* when the best matching rule's rate equals a baseRate >= 0, the row carries the
\* condition lists of the first matching rule with that rate.
C3_ListsEmptyWhenBaseStrictlyBest ==
    Ranked => \A j \in CardIndex :
        /\ (MatchingRates(j) = {} \/ base_rate(cards[j]) > SetMax(MatchingRates(j)))
              => ListsEmpty(RowOf(j))
        /\ (/\ MatchingRates(j) # {}
            /\ base_rate(cards[j]) = SetMax(MatchingRates(j))
            /\ base_rate(cards[j]) >= 0)
              => /\ RowOf(j).category = Details(FirstBest(j)).category
                 /\ RowOf(j).payee = Details(FirstBest(j)).payee
                 /\ RowOf(j).paymentMethod = Details(FirstBest(j)).paymentMethod

\* C3 witness: a rule with a category condition matched below the base rate and
\* the row's lists were emptied
C3_Witness ==
    /\ Ranked
    /\ \E j \in CardIndex :
          /\ \E k \in Matching(j) :
                /\ Candidates(j)[k].category # <<>>
                /\ rule_rate(Candidates(j)[k]) >= 0
          /\ base_rate(cards[j]) > SetMax(MatchingRates(j))
          /\ ListsEmpty(RowOf(j))

\* C4: a rule with a non-empty category, payee or paymentMethod list never matches
\* a context in which that field is absent, whatever the other fields are; a row
\* never reports a non-empty list that the context's field is not a member of.
C4_AbsentFieldNeverMatches ==
    /\ \A j \in CardIndex : \A k \in 1..Len(Candidates(j)) :
          LET rule == Candidates(j)[k] IN
          rule.isDict =>
            /\ (rule.category # <<>> /\ ctx.category_id = NoneId) => ~matches(rule, ctx)
            /\ (rule.payee # <<>> /\ ctx.payee_id = NoneId) => ~matches(rule, ctx)
            /\ (rule.paymentMethod # <<>> /\ ctx.payment_method_id = NoneId)
                  => ~matches(rule, ctx)
    /\ Ranked => \A i \in RowIndex :
          /\ out.rows[i].category # <<>>
                => ctx.category_id # NoneId /\ InList(ctx.category_id, out.rows[i].category)
          /\ out.rows[i].payee # <<>>
                => ctx.payee_id # NoneId /\ InList(ctx.payee_id, out.rows[i].payee)
          /\ out.rows[i].paymentMethod # <<>>
                => ctx.payment_method_id # NoneId
                   /\ InList(ctx.payment_method_id, out.rows[i].paymentMethod)

\* C4 witness: a rule requiring a category and a payee was ranked for a context
\* that supplies the payee but no category, and the card got its base rate
C4_Witness ==
    /\ Ranked
    /\ ctx.category_id = NoneId
    /\ ctx.payee_id # NoneId
    /\ \E j \in CardIndex :
          /\ \E k \in 1..Len(Candidates(j)) :
                /\ Candidates(j)[k].isDict
                /\ Candidates(j)[k].category # <<>>
                /\ InList(ctx.payee_id, extract_names(Candidates(j)[k].payee))
                /\ rule_rate(Candidates(j)[k]) > base_rate(cards[j])
          /\ RowOf(j).rate = base_rate(cards[j])
          /\ ListsEmpty(RowOf(j))

\* C5: a candidate rule whose three condition lists are all empty matches every
\* context, the context with no field supplied included, so the card's row never
\* has a rate below that rule's rate.
C5_UnconditionalRuleMatchesAll ==
    \A j \in CardIndex : \A k \in 1..Len(Candidates(j)) :
        LET rule == Candidates(j)[k] IN
        (rule.isDict /\ Details(rule) = EmptyDetails) =>
            /\ matches(rule, ctx)
            /\ (Ranked /\ rate_ok(rule)) => RowOf(j).rate >= rule_rate(rule)

\* C5 witness: a ranking for the context with no category, payee or payment
\* method, in which an unconditional rule above the base rate set the card's rate
C5_Witness ==
    /\ Ranked
    /\ ctx.category_id = NoneId /\ ctx.payee_id = NoneId /\ ctx.payment_method_id = NoneId
    /\ \E j \in CardIndex : \E k \in 1..Len(Candidates(j)) :
          /\ Candidates(j)[k].isDict
          /\ Details(Candidates(j)[k]) = EmptyDetails
          /\ rate_ok(Candidates(j)[k])
          /\ rule_rate(Candidates(j)[k]) > base_rate(cards[j])
          /\ RowOf(j).rate = rule_rate(Candidates(j)[k])

QuarterOfMonth(m) ==
    IF m \in {1, 2, 3} THEN 1 ELSE IF m \in {4, 5, 6} THEN 2
    ELSE IF m \in {7, 8, 9} THEN 3 ELSE 4

\* the rule of a Rotating card is active in the current month, as the claim states it
ActiveNow(card, rule) ==
    \/ ~rule.is_rotating
    \/ rotation_period(card) = "Monthly" /\ month \in rule.months
    \/ rotation_period(card) = "Quarterly" /\ QuarterOfMonth(month) \in rule.quarters

IsRotatingCard(card) ==
    /\ card.reward_structure_type = "Rotating"
    /\ \A k \in 1..Len(card.rotating_rules) : card.rotating_rules[k].isDict

\* C6: a rule of a Rotating card is a candidate in month m exactly when it is not
\* rotating, or the period is Monthly and m is in its months, or the period is
\* Quarterly and floor((m-1)/3)+1 is in its quarters; the card's row is at its base
\* rate when no rule is active and at least at the rate of an active matching rule.
C6_RotatingCandidates ==
    \A j \in CardIndex : IsRotatingCard(cards[j]) =>
        /\ \A k \in 1..Len(cards[j].rotating_rules) :
              InList(cards[j].rotating_rules[k], Candidates(j))
                 <=> ActiveNow(cards[j], cards[j].rotating_rules[k])
        /\ Ranked =>
              /\ (/\ \A k \in 1..Len(cards[j].rotating_rules) :
                        ~ActiveNow(cards[j], cards[j].rotating_rules[k])
                  /\ base_rate(cards[j]) >= 0)
                    => RowOf(j).rate = base_rate(cards[j]) /\ ListsEmpty(RowOf(j))
              /\ \A k \in 1..Len(cards[j].rotating_rules) :
                    LET rule == cards[j].rotating_rules[k] IN
                    (ActiveNow(cards[j], rule) /\ rate_ok(rule) /\ matches(rule, ctx))
                        => RowOf(j).rate >= rule_rate(rule)

\* C6 witness: a Quarterly card with a rule for quarter 1 was ranked in March
\* and got the rule's rate
C6_Witness ==
    /\ Ranked
    /\ month = 3
    /\ \E j \in CardIndex :
          /\ IsRotatingCard(cards[j])
          /\ rotation_period(cards[j]) = "Quarterly"
          /\ \E k \in 1..Len(cards[j].rotating_rules) :
                /\ cards[j].rotating_rules[k].is_rotating
                /\ cards[j].rotating_rules[k].quarters = {1}
                /\ matches(cards[j].rotating_rules[k], ctx)
                /\ RowOf(j).rate = rule_rate(cards[j].rotating_rules[k])
                /\ RowOf(j).rate > base_rate(cards[j])

\* C7: the rows of a ranking are in non-increasing order of rate, and rows with
\* equal rate are in the order of their cards in the stored card list.
C7_SortedDescendingStable ==
    Ranked => \A i \in RowIndex : \A l \in RowIndex :
        i < l =>
            /\ out.rows[i].rate >= out.rows[l].rate
            /\ out.rows[i].rate = out.rows[l].rate
                  => PosOf(out.rows[i].card.id) < PosOf(out.rows[l].card.id)

\* C7 witness: a ranking of three cards that puts a later card first and holds
\* two rows of equal rate
C7_Witness ==
    /\ Ranked
    /\ Len(out.rows) >= 3
    /\ out.rows[1].card.id # cards[1].id
    /\ \E i \in RowIndex : i + 1 \in RowIndex /\ out.rows[i].rate = out.rows[i + 1].rate

\* C8: a ranking holds exactly one row per stored card, whatever the cards' reward
\* configuration.
C8_OneRowPerCard ==
    op = "rank" =>
        /\ out.ok
        /\ Len(out.rows) = Len(cards)
        /\ \A j \in CardIndex :
              Cardinality({i \in RowIndex : out.rows[i].card.id = cards[j].id}) = 1

\* C9: neither a ranking nor an enumeration changes any field of a stored card or
\* of a rule nested in it.
C9_CardsUnchanged ==
    [][op' \in {"rank", "enumerate"} => cards' = cards]_vars

\* C10: a ranking called again with the same context, on the same date and with
\* no other operation in between, returns the same output.
C10_RepeatedRankingSame ==
    [][(op = "rank" /\ op' = "rank" /\ ctx' = ctx /\ month' = month) => out' = out]_vars

\* C10 witness: a Dynamic card with an active entry {rule, rate} was ranked twice
\* in a row with the same context
C10_Witness ==
    /\ Ranked
    /\ again
    /\ \E j \in CardIndex :
          /\ cards[j].reward_structure_type = "Dynamic"
          /\ \E k \in 1..Len(cards[j].active_rules) :
                /\ IsNested(cards[j].active_rules[k])
                /\ matches(cards[j].active_rules[k].rule, ctx)
                /\ RowOf(j).rate = cards[j].active_rules[k].rate.v

Enumerated == op = "enumerate" /\ out.ok

\* C11 as stated: the rate of every row of a ranking or of an enumeration is
\* never negative, whatever base rates and rule rates the stored cards have.
C11_RatesNeverNegative ==
    (Ranked \/ Enumerated) => \A i \in RowIndex : out.rows[i].rate >= 0

\* positions of the candidate rules of card j that the enumeration must emit:
\* a usable rule with rate > 0 that is not an unconditional rule at the base rate
Emitted(j) ==
    {k \in 1..Len(Candidates(j)) :
        LET rule == Candidates(j)[k] IN
        /\ rule.isDict
        /\ rule.rate.k = "num"
        /\ rule.rate.v > 0
        /\ ~(/\ rule.category = <<>> /\ rule.payee = <<>> /\ rule.paymentMethod = <<>>
              /\ rule.rate.v = base_rate(cards[j]))}

BaseScenario(j) ==
    [card |-> [id |-> cards[j].id], rate |-> base_rate(cards[j]), category |-> <<>>,
     payee |-> <<>>, paymentMethod |-> <<>>]

RuleScenario(j, k) ==
    [card |-> [id |-> cards[j].id], rate |-> Candidates(j)[k].rate.v,
     category |-> extract_names(Candidates(j)[k].category),
     payee |-> extract_names(Candidates(j)[k].payee),
     paymentMethod |-> extract_names(Candidates(j)[k].paymentMethod)]

\* how many scenarios equal to row the enumeration must hold for card j
Expected(j, row) ==
    (IF base_rate(cards[j]) > 0 /\ row = BaseScenario(j) THEN 1 ELSE 0)
    + Cardinality({k \in Emitted(j) : RuleScenario(j, k) = row})

\* C12: an enumeration holds for each card exactly one unconditional scenario at
\* baseRate iff baseRate > 0, plus one scenario for each currently relevant rule
\* with rate > 0 that is not an unconditional rule at baseRate, and nothing else.
C12_ScenariosPerCard ==
    Enumerated =>
        /\ \A i \in RowIndex : \E j \in CardIndex : out.rows[i].card.id = cards[j].id
        /\ \A j \in CardIndex :
              LET mine == {i \in RowIndex : out.rows[i].card.id = cards[j].id} IN
              /\ Cardinality(mine)
                    = (IF base_rate(cards[j]) > 0 THEN 1 ELSE 0) + Cardinality(Emitted(j))
              /\ \A i \in mine :
                    Cardinality({l \in mine : out.rows[l] = out.rows[i]})
                        = Expected(j, out.rows[i])

\* C12 witness: an enumeration over a card with a positive base rate and two
\* relevant rules, one emitted and one left out
C12_Witness ==
    /\ Enumerated
    /\ \E j \in CardIndex :
          /\ base_rate(cards[j]) > 0
          /\ Len(Candidates(j)) >= 2
          /\ Emitted(j) # {}
          /\ Cardinality(Emitted(j)) < Len(Candidates(j))
          /\ \E i \in RowIndex : out.rows[i] = BaseScenario(j)

\* the scenarios in generation order: cards in stored order, within a card the
\* base scenario first and then the rule scenarios in list order
Generated == all_scenarios(cards, 1, month)

WithRate(rows, v) == SelectSeq(rows, LAMBDA row : row.rate = v)

\* C13: the output of an enumeration is ordered by rate, non-increasing, and
\* scenarios of equal rate keep their generation order.
C13_EnumerationSortedStable ==
    Enumerated =>
        /\ \A i \in RowIndex : \A l \in RowIndex : i < l => out.rows[i].rate >= out.rows[l].rate
        /\ Len(out.rows) = Len(Generated)
        /\ \A i \in RowIndex :
              WithRate(out.rows, out.rows[i].rate) = WithRate(Generated, out.rows[i].rate)

\* C13 witness: an enumeration that had to move a scenario ahead of two
\* scenarios of equal rate generated before it by different cards
C13_Witness ==
    /\ Enumerated
    /\ out.rows # Generated
    /\ \E i \in RowIndex : \E l \in RowIndex :
          /\ i < l
          /\ out.rows[i].rate = out.rows[l].rate
          /\ out.rows[i].card.id # out.rows[l].card.id
          /\ out.rows[1].rate > out.rows[i].rate

IsDynamicCard(card) == card.reward_structure_type = "Dynamic" /\ ~GatherRaises(card)

\* the rates the active selection of a card offers
ActiveRates(card) ==
    {IF e.form = "nested" THEN e.rate.v ELSE e.rule.rate.v :
        e \in {card.active_rules[k] : k \in 1..Len(card.active_rules)}}

\* C14: the candidate rules of a Dynamic card are those of its active selection
\* alone: its row is the row the card would get with no tiers at all, and its rate
\* is the base rate or the rate of an active entry, never the rate of a rule that
\* is only eligible in a tier.
C14_OnlyActiveSelectionCounts ==
    \A j \in CardIndex : IsDynamicCard(cards[j]) =>
        /\ Candidates(j) = DynamicRules(cards[j].active_rules, 1)
        /\ Ranked =>
              /\ RowOf(j) = scenario_row(WithTiers(cards[j], <<>>), ctx, month)
              /\ RowOf(j).rate \in {base_rate(cards[j]), best_rule_rate_init}
                                     \cup ActiveRates(cards[j])

\* C14 witness: a Dynamic card was ranked for a category that one of its tiers
\* lists as eligible at a higher rate while no active entry matches it
C14_Witness ==
    /\ Ranked
    /\ \E j \in CardIndex :
          /\ IsDynamicCard(cards[j])
          /\ cards[j].active_rules # <<>>
          /\ Matching(j) = {}
          /\ \E t \in 1..Len(cards[j].dynamic_tiers) :
                LET tier == cards[j].dynamic_tiers[t] IN
                /\ tier.rate.v > base_rate(cards[j])
                /\ \E k \in 1..Len(tier.eligible_rules) :
                      matches(tier.eligible_rules[k], ctx)
          /\ RowOf(j).rate = base_rate(cards[j])
\* a stored card with reward_structure_type Dynamic on which the last
\* optimize_dynamic_rewards call ran
Optimized(j) ==
    /\ op = "optimize"
    /\ res.id = cards[j].id
    /\ cards[j].reward_structure_type = "Dynamic"

\* the entries of the active selection of card that belong to tier
ActiveIn(card, tier) ==
    {k \in 1..Len(card.active_rules) : card.active_rules[k].tier_id = tier.tier_id}

\* C15 as stated: after optimize_dynamic_rewards has run for a Dynamic card, no
\* tier of the card has more than max_active rules in the active selection.
C15_AtMostMaxActivePerTier ==
    \A j \in CardIndex : Optimized(j) =>
        \A i \in 1..Len(cards[j].dynamic_tiers) :
            Cardinality(ActiveIn(cards[j], cards[j].dynamic_tiers[i]))
                <= cards[j].dynamic_tiers[i].max_active

\* the eligible rules of a tier with their scores, in list order
Scored(tier, others) ==
    [k \in 1..Len(tier.eligible_rules) |->
        [rule |-> tier.eligible_rules[k],
         rate |-> _calculate_rule_score(tier.eligible_rules[k], tier.rate.v, others).v]]

\* the first max_active eligible rules of a tier by score descending, ties in
\* list order, as entries of the active selection
SelectedIn(tier, others) ==
    LET ranked == sort_desc(Scored(tier, others), 1, <<>>)
        n == IF tier.max_active < Len(ranked) THEN tier.max_active ELSE Len(ranked)
    IN  [k \in 1..n |-> [form |-> "nested", rule |-> ranked[k].rule, rate |-> tier.rate,
                         tier_id |-> tier.tier_id]]

RECURSIVE Selected(_, _, _)
Selected(tiers, i, others) ==
    IF i > Len(tiers) THEN <<>>
    ELSE SelectedIn(tiers[i], others) \o Selected(tiers, i + 1, others)

\* C16 as stated: optimize_dynamic_rewards on a stored Dynamic card returns
\* success and leaves as the card's active selection exactly, per tier, the
\* first max_active eligible rules in the order of their scores, highest first.
C16_SelectsTopScoredRules ==
    \A j \in CardIndex : Optimized(j) =>
        /\ res.ok /\ res.success
        /\ cards[j].active_rules = Selected(cards[j].dynamic_tiers, 1, OtherCards(cards, j))

\* the context a rule stands for: its first category, payee and payment method
RuleContext(rule) ==
    [category_id |-> IF rule.category = <<>> THEN NoneId ELSE extract_names(rule.category)[1],
     payee_id |-> IF rule.payee = <<>> THEN NoneId ELSE extract_names(rule.payee)[1],
     payment_method_id |-> IF rule.paymentMethod = <<>> THEN NoneId
                           ELSE extract_names(rule.paymentMethod)[1],
     amount_milliunits |-> 0]

\* the highest rate a card other than id offers now for what the rule covers
BestOffered(rule, id) ==
    SetMax({scenario_row(cards[j], RuleContext(rule), month).rate :
               j \in {l \in CardIndex : cards[l].id # id}})

\* the card has the keys save_manual_credit_card_details stores and no others
AsSaved(card) ==
    /\ card.reward_structure_type \in {"Static", "Rotating", "Dynamic"}
    /\ card.rewards_structure = "absent"
    /\ card.reward_structure = "absent"

\* C17 as stated: _calculate_rule_score returns tier_rate minus the highest rate
\* that any other stored card, stored as save_manual_credit_card_details stores
\* it, offers now for the rule's category, payee or payment method.
C17_ScoreIsRateMinusBestCompeting ==
    (/\ op = "score"
     /\ Len(cards) > 1
     /\ \A j \in CardIndex : cards[j].id # res.id => AsSaved(cards[j])) =>
        /\ res.ok
        /\ res.score = res.arg.tier_rate - BestOffered(res.arg.rule, res.id)

\* the operation thread t was in has returned or raised in this step
Finished(t) == runs[t].pc # "idle" /\ runs'[t].pc = "idle"

\* C18 as stated: optimize_dynamic_rewards and update_active_rules called with
\* a card id that is not stored return False, raise nothing, and leave the
\* stored cards as they were.
C18_UnknownCardFails ==
    [][\A t \in Threads :
          (Finished(t) /\ IndexOf(cards, runs[t].id) = 0)
              => (res'.ok /\ ~res'.success /\ cards' = cards)]_vars

\* C19 as stated: at most one optimize_dynamic_rewards or update_active_rules
\* run per card is in progress at any time.
C19_OneRunPerCard ==
    \A t \in Threads : \A u \in Threads :
        (t # u /\ runs[t].pc # "idle" /\ runs[u].pc # "idle") => runs[t].id # runs[u].id
\* a ranking or an enumeration that ran between the merge and the validation of
\* a save_manual_credit_card_details call
ReadDuringSave == (Ranked \/ Enumerated) /\ save.pc = "merged"

\* what a ranking or an enumeration reports for a card in a given state
Reported(card) ==
    IF op = "rank" THEN <<scenario_row(card, ctx, month)>>
    ELSE sort_desc(card_scenarios(card, month), 1, <<>>)

\* C20 as stated: a ranking or an enumeration that runs while a save is in
\* progress reports for each card what it reports for the card as it was before
\* the save or as it is after the save's validation, never for a card that is
\* merged and not yet validated.
C20_ReadsBeforeOrAfterState ==
    ReadDuringSave => \A id \in StoreIds :
        LET rows == SelectSeq(out.rows, LAMBDA row : row.card.id = id)
            b == IndexOf(save.before, id)
            a == IndexOf(cards, id)
        IN  \/ rows = (IF b = 0 THEN <<>> ELSE Reported(save.before[b]))
            \/ rows = (IF a = 0 THEN <<>> ELSE Reported(sanitized(cards[a])))
\* C21 as stated, for the rankings: once the activation period of a Dynamic card
\* has rolled over, its active selection is recomputed by an optimization run
\* before a ranking evaluates the card on it; no ranking uses a selection that
\* dates from an earlier period.
C21_NoStaleSelectionRanked ==
    Ranked => \A j \in CardIndex :
        (IsDynamicCard(cards[j]) /\ cards[j].id \in stale) => Candidates(j) = <<>>
\* the candidate rules of card j whose rate is present and numeric
WithNumericRate(j) ==
    SelectSeq(Candidates(j), LAMBDA rule : rule.isDict /\ rule.rate.k = "num")

\* the row card j gets when only the given rules are evaluated
RowFrom(j, rules) ==
    LET acc == EvaluateRules(rules, ctx, 1,
                             [best |-> best_rule_rate_init, details |-> EmptyDetails])
        eff == card_effective_rate(base_rate(cards[j]), acc.best)
        det == IF base_rate_was_best(eff, base_rate(cards[j]), acc.best)
               THEN EmptyDetails ELSE acc.details
    IN  [card |-> [id |-> cards[j].id], rate |-> eff, category |-> det.category,
         payee |-> det.payee, paymentMethod |-> det.paymentMethod]

\* C22 as stated: a rule whose rate is missing or not numeric is skipped by the
\* ranking: the card's row is the row its other rules alone give it, and a card
\* with no rule of numeric rate gets the row of a card without rules, which is
\* its base rate with empty condition lists.
C22_MalformedRateSkipped ==
    Ranked => \A j \in CardIndex :
        /\ RowOf(j) = RowFrom(j, WithNumericRate(j))
        /\ WithNumericRate(j) = <<>> => RowOf(j) = RowFrom(j, <<>>)
UnknownStructure(card) == card.reward_structure_type \notin {"Static", "Rotating", "Dynamic"}

\* C23 as stated: a card whose structure type is none of Static, Rotating and
\* Dynamic never makes the ranking raise, and its row has exactly the card's
\* base rate and empty condition lists, whatever rules the card has stored.
C23_UnknownStructureAtBaseRate ==
    \A j \in CardIndex : UnknownStructure(cards[j]) =>
        /\ ~GatherRaises(cards[j])
        /\ Ranked => RowOf(j).rate = base_rate(cards[j]) /\ ListsEmpty(RowOf(j))
\* C24: the ranking does not depend on amount_milliunits: the call made returned
\* what the call with any other amount, and otherwise the same arguments, returns
\* over the same cards and month.
C24_AmountIndependent ==
    op = "rank" => \A a \in Amounts :
        out = find_best_card_for_transaction(cards, [ctx EXCEPT !.amount_milliunits = a], month)

\* C24 witness: a ranking for a non-zero amount over two cards in which a rule
\* matched and set a card's rate
C24_Witness ==
    /\ Ranked
    /\ ctx.amount_milliunits > 0
    /\ Len(cards) >= 2
    /\ \E j \in CardIndex :
          /\ Matching(j) # {}
          /\ RowOf(j).rate > base_rate(cards[j])
          /\ ~ListsEmpty(RowOf(j))
\* the two rules have the same conditions, the first as identifier strings and
\* the second as dicts {id, name} with those identifiers
SameConditions(list1, list2) ==
    /\ Len(list1) = Len(list2)
    /\ \A i \in 1..Len(list1) :
          ~list1[i].obj /\ list2[i].obj /\ list1[i].id = list2[i].id

StringAndObjectForm(rule1, rule2) ==
    /\ rule1.isDict /\ rule2.isDict
    /\ SameConditions(rule1.category, rule2.category)
    /\ SameConditions(rule1.payee, rule2.payee)
    /\ SameConditions(rule1.paymentMethod, rule2.paymentMethod)

\* C25 as stated: a rule whose condition entries are dicts {id, name} matches
\* every context that the rule with the same entries as plain identifier
\* strings matches.
C25_ObjectFormMatchesLikeStringForm ==
    \A j \in CardIndex : \A l \in CardIndex :
        \A k \in 1..Len(Candidates(j)) : \A m \in 1..Len(Candidates(l)) :
            (/\ StringAndObjectForm(Candidates(j)[k], Candidates(l)[m])
             /\ matches(Candidates(j)[k], ctx))
                => matches(Candidates(l)[m], ctx)

\* the matching candidates of card j that carry the highest matching rate
AtMaximalRate(j) ==
    {k \in Matching(j) : rule_rate(Candidates(j)[k]) = SetMax(MatchingRates(j))}

SameLists(row, details) ==
    /\ row.category = details.category
    /\ row.payee = details.payee
    /\ row.paymentMethod = details.paymentMethod

\* C26: when several matching candidate rules of a card share the maximal rate,
\* the condition lists that the card's row reports (any lists at all, or the
\* lists going with a rule rate above the base rate) are those of the first of
\* these rules in list order: a later rule of equal rate never replaces it.
C26_FirstRuleWinsTies ==
    Ranked => \A j \in CardIndex :
        (/\ Cardinality(AtMaximalRate(j)) >= 2
         /\ \/ ~ListsEmpty(RowOf(j))
            \/ /\ RowOf(j).rate = SetMax(MatchingRates(j))
               /\ RowOf(j).rate > base_rate(cards[j]))
            => SameLists(RowOf(j), Details(FirstBest(j)))

\* C26 witness: two matching rules tie above the base rate, their lists differ,
\* and the row carries the lists of the first
C26_Witness ==
    /\ Ranked
    /\ \E j \in CardIndex :
          /\ Cardinality(AtMaximalRate(j)) >= 2
          /\ RowOf(j).rate = SetMax(MatchingRates(j))
          /\ RowOf(j).rate > base_rate(cards[j])
          /\ ~ListsEmpty(RowOf(j))
          /\ SameLists(RowOf(j), Details(FirstBest(j)))
          /\ \E k \in AtMaximalRate(j) : ~SameLists(RowOf(j), Details(Candidates(j)[k]))

\* the tier of the card that an entry names, 0 if none
TierNamed(card, tier_id) ==
    IF \E i \in 1..Len(card.dynamic_tiers) : card.dynamic_tiers[i].tier_id = tier_id
    THEN CHOOSE i \in 1..Len(card.dynamic_tiers) : card.dynamic_tiers[i].tier_id = tier_id
    ELSE 0

\* the input entries that name a tier of the card and carry a rule, in input
\* order, each with the rate of its tier
RECURSIVE ValidEntries(_, _, _)
ValidEntries(card, active_rules, i) ==
    IF i > Len(active_rules) THEN <<>>
    ELSE LET e == active_rules[i]
             n == TierNamed(card, e.tier_id)
         IN  (IF n # 0 /\ e.rule.isDict
              THEN <<[form |-> "nested", rule |-> e.rule,
                      rate |-> card.dynamic_tiers[n].rate, tier_id |-> e.tier_id]>>
              ELSE <<>>) \o ValidEntries(card, active_rules, i + 1)

\* C27 as stated: update_active_rules on a stored Dynamic card returns True,
\* leaves as the card's active selection exactly the valid input entries in
\* input order, each with its tier's rate, and changes no other card.
C27_UpdateReplacesSelection ==
    [][\A t \in Threads :
          (/\ Finished(t)
           /\ runs[t].pc = "update"
           /\ IndexOf(cards, runs[t].id) # 0
           /\ IsDynamicCard(cards[IndexOf(cards, runs[t].id)]))
              => LET j == IndexOf(cards, runs[t].id) IN
                 /\ res'.ok /\ res'.success
                 /\ Len(cards') = Len(cards)
                 /\ cards'[j].active_rules = ValidEntries(cards[j], runs[t].active_rules, 1)
                 /\ \A l \in CardIndex : l # j => cards'[l] = cards[l]]_vars

\* save_manual_credit_card_details has just returned True
Saved == op = "save" /\ save.pc = "idle" /\ res.ok /\ res.success

\* C28: after a successful save every stored card, the saved one among them,
\* has reward_system Cashback or Points, and a Cashback card has no points
\* program, whatever the payload contained.
C28_RewardSystemSanitized ==
    Saved => \A j \in CardIndex :
        /\ cards[j].reward_system \in {"Cashback", "Points"}
        /\ cards[j].reward_system = "Cashback" => cards[j].points_program = NoneId

\* C28 witness: the payload with base_rate 7, reward_system 'Miles' and
\* points_program 'prog1' was saved: the card is Cashback without a program
C28_Witness ==
    /\ Saved
    /\ \E j \in CardIndex :
          /\ cards[j].base_rate = Num(7)
          /\ cards[j].reward_system = "Cashback"
          /\ cards[j].points_program = NoneId

\* C29 as stated: after any sequence of saves and deletes no two stored cards
\* share an id, and after a successful save under card_id a stored card has
\* that id.
C29_CardIdsUnique ==
    save.pc = "idle" =>
        /\ \A j \in CardIndex : \A l \in CardIndex : cards[j].id = cards[l].id => j = l
        /\ Saved => IndexOf(cards, res.id) # 0

\* what an enumeration over the same cards on the same date returns
Scenarios == get_best_overall_reward_scenarios(cards, month).rows

HasScenario(row) == \E i \in 1..Len(Scenarios) : Scenarios[i] = row

\* C30 as stated: every row of a ranking whose condition lists are not all
\* empty has a scenario in the enumeration over the same cards and date, for
\* the same card with the same rate and the same three lists.
C30_RowsHaveScenarios ==
    Ranked => \A i \in RowIndex : ~ListsEmpty(out.rows[i]) => HasScenario(out.rows[i])

\* C30 amended: every row of a ranking whose condition lists are not all empty
\* and whose rate is greater than zero has a scenario in the enumeration over
\* the same cards and date, for the same card with the same rate and lists.
C30_RewardingRowsHaveScenarios ==
    Ranked => \A i \in RowIndex :
        (~ListsEmpty(out.rows[i]) /\ out.rows[i].rate > 0) => HasScenario(out.rows[i])

\* C30 witness: a ranking row with a category list and a positive rate, found
\* among the scenarios
C30_Witness ==
    /\ Ranked
    /\ \E i \in RowIndex :
          /\ out.rows[i].category # <<>>
          /\ out.rows[i].rate > 0
          /\ HasScenario(out.rows[i])
====
